---- MODULE Spec2Model ----
(***************************************************************************)
(* Model of scripts/collision_detection_example.py (pyb_utils).            *)
(*                                                                         *)
(* The script connects two simulator sessions (a GUI one and a DIRECT,     *)
(* headless one), creates eight sliders in the GUI session, loads the same *)
(* scene into both sessions, builds a CollisionDetector on the headless    *)
(* session and then loops forever: read the joint sliders, query the       *)
(* detector, apply the pose to the GUI robot or show a warning, step.      *)
(*                                                                         *)
(* Lengths are in hundredths of a metre, so the margin slider's range      *)
(* 0 .. 0.2 with start value 0.01 is 0 .. 20 with start value 1.  Joint    *)
(* angles are small integers standing for slider positions.                *)
(***************************************************************************)
EXTENDS Integers, Sequences, FiniteSets, TLC

(* ------------------------------ bounds --------------------------------- *)

\* How many times the user moves a slider during one run.
MaxMoves == 2

\* Positions a joint slider can be dragged to (0 is the start value).
JointVals == {0, 1}

\* Positions the collision_margin slider can be dragged to, within 0 .. 20.
MarginVals == {0, 1, 20}

\* Shortest distances the headless scene can have for one monitored pair.
DistVals == {0, 1}

(* --------------------------- program constants ------------------------- *)

\* Joints of kuka_iiwa/model.urdf, the arm load_environment loads.
NumJointsKuka == 7

MarginLo == 0
MarginHi == 20
MarginStart == 1
JointStart == 0

Unbound == -1

ClientIds == {0, 1}

\* load_environment: the loadURDF calls in program order, with the key under
\* which the returned id is stored in the bodies dict.
LoadOrder ==
    << [file |-> "plane.urdf",           pos |-> <<0, 0, 0>>,        key |-> "ground"],
       [file |-> "kuka_iiwa/model.urdf", pos |-> <<0, 0, 0>>,        key |-> "robot"],
       [file |-> "cube.urdf",            pos |-> <<100, 100, 50>>,   key |-> "cube1"],
       [file |-> "cube.urdf",            pos |-> <<-100, -100, 50>>, key |-> "cube2"],
       [file |-> "cube.urdf",            pos |-> <<100, -100, 50>>,  key |-> "cube3"] >>

\* create_user_debug_params: the addUserDebugParameter calls in program order.
ParamOrder ==
    << "collision_margin",
       "lbr_iiwa_joint1", "lbr_iiwa_joint2", "lbr_iiwa_joint3", "lbr_iiwa_joint4",
       "lbr_iiwa_joint5", "lbr_iiwa_joint6", "lbr_iiwa_joint7" >>

\* main, lines 98-106: the sliders read into q, in program order.
\* Variant: the first two reads are swapped.
JointReadOrderSwapped ==
    << "lbr_iiwa_joint2", "lbr_iiwa_joint1", "lbr_iiwa_joint3", "lbr_iiwa_joint4",
       "lbr_iiwa_joint5", "lbr_iiwa_joint6", "lbr_iiwa_joint7" >>

JointReadOrder ==
    << "lbr_iiwa_joint1", "lbr_iiwa_joint2", "lbr_iiwa_joint3", "lbr_iiwa_joint4",
       "lbr_iiwa_joint5", "lbr_iiwa_joint6", "lbr_iiwa_joint7" >>

\* main, lines 82-86: the NamedCollisionObjects.
ground == [body |-> "ground", link |-> "None"]
cube1  == [body |-> "cube1",  link |-> "None"]
cube2  == [body |-> "cube2",  link |-> "None"]
cube3  == [body |-> "cube3",  link |-> "None"]
link7  == [body |-> "robot",  link |-> "lbr_iiwa_link_7"]

\* main, line 91: the monitored pairs handed to the CollisionDetector.
MonitoredPairs == << <<link7, ground>>, <<link7, cube1>>, <<link7, cube2>>, <<link7, cube3>> >>

\* Joints of a loaded model: only the arm has any.
NumJointsOf(file) == IF file = "kuka_iiwa/model.urdf" THEN NumJointsKuka ELSE 0

(* ------------------------------- state --------------------------------- *)

VARIABLES
    pc,                \* position of main
    conn,              \* simulator: connection mode of each client, client k at conn[k+1]
    scene,             \* simulator: per client, the loaded bodies, body b at scene[c][b+1]
    jpos,              \* simulator: per client and body, the joint positions
    stepped,           \* simulator: per client, whether stepSimulation ever ran
    sliders,           \* GUI: the debug parameters, parameter k at sliders[k+1]
    geom,              \* headless scene: current shortest distance of each monitored pair
    moves,             \* number of slider moves the user has made
    gui_id, col_id,    \* main's locals
    user_params,
    bodies, collision_bodies,
    col_detector,
    robot_id,
    reads,             \* the list literal of lines 98-106 while it is being evaluated
    q, d, in_col,
    loaded,            \* load_environment's locals: ids returned so far
    joint_idx,         \* update_robot_state's loop variable
    err,               \* the exception a call has raised, "none" before any
    calls,             \* simulator/helper calls of the current loop iteration
    last_clear         \* history: the q of the latest in_collision call that returned False

simVars   == <<conn, scene, jpos, stepped, sliders, geom>>
setupVars == <<gui_id, col_id, user_params, bodies, collision_bodies, col_detector, robot_id>>
iterVars  == <<reads, q, d, in_col, joint_idx, calls, last_clear>>
vars == <<pc, conn, scene, jpos, stepped, sliders, geom, moves, gui_id, col_id,
          user_params, bodies, collision_bodies, col_detector, robot_id,
          reads, q, d, in_col, loaded, joint_idx, err, calls, last_clear>>

EmptyDict == [k \in {} |-> 0]

Init ==
    /\ pc = "connect_gui"
    /\ conn = <<>>
    /\ scene = [c \in ClientIds |-> <<>>]
    /\ jpos = [c \in ClientIds |-> <<>>]
    /\ stepped = [c \in ClientIds |-> FALSE]
    /\ sliders = <<>>
    /\ geom = <<>>
    /\ moves = 0
    /\ gui_id = Unbound
    /\ col_id = Unbound
    /\ user_params = EmptyDict
    /\ bodies = EmptyDict
    /\ collision_bodies = EmptyDict
    /\ col_detector = [col_id |-> Unbound, bodies |-> EmptyDict, pairs |-> <<>>]
    /\ robot_id = Unbound
    /\ reads = <<>>
    /\ q = <<>>
    /\ d = <<>>
    /\ in_col = FALSE
    /\ loaded = <<>>
    /\ joint_idx = 0
    /\ err = "none"
    /\ calls = <<>>
    /\ last_clear = <<>>

(* ------------------------------ helpers -------------------------------- *)

Range(s) == {s[i] : i \in DOMAIN s}

RECURSIVE MinOf(_)
MinOf(s) == IF Len(s) = 1 THEN s[1]
            ELSE LET m == MinOf(Tail(s)) IN IF s[1] < m THEN s[1] ELSE m

\* All tuples of length n over S.
RECURSIVE Tuples(_, _)
Tuples(S, n) == IF n = 0 THEN {<<>>}
                ELSE {Append(t, x) : t \in Tuples(S, n - 1), x \in S}

\* An exception raised inside main: there is no try/except around any call,
\* so it leaves main and the script ends with nothing else done.
\* Variant: the exception is caught and the warning branch is taken instead.
PropagateCaught ==
    /\ pc' = "warn"
    /\ in_col' = TRUE
    /\ UNCHANGED <<simVars, moves, setupVars, reads, q, d, loaded, joint_idx, calls, last_clear>>

Propagate ==
    /\ pc' = "crashed"
    /\ UNCHANGED <<simVars, moves, setupVars, iterVars, loaded>>

(* --------------------------- the simulator ----------------------------- *)

\* pyb.connect: the new client's id is the number of clients connected before.
Connect(mode) == Append(conn, mode)

\* pyb.loadURDF: the new body's id is the number of bodies the session held.
LoadURDF(sc, client, e) ==
    [sc EXCEPT ![client] = Append(@, [file |-> e.file, pos |-> e.pos])]

\* A freshly loaded body has every joint at zero.
LoadJoints(jp, client, e) ==
    [jp EXCEPT ![client] = Append(@, [i \in 1 .. NumJointsOf(e.file) |-> 0])]

\* pyb.getNumJoints(body, physicsClientId = client)
GetNumJoints(body, client) == Len(jpos[client][body + 1])

\* pyb.resetJointState is defined for a joint the body has.
ValidJoint(body, idx, client) ==
    /\ client \in ClientIds
    /\ body + 1 \in DOMAIN jpos[client]
    /\ idx + 1 \in DOMAIN jpos[client][body + 1]

\* pyb.resetJointState(body, idx, value, physicsClientId = client)
ResetJointState(jp, body, idx, value, client) ==
    [jp EXCEPT ![client][body + 1][idx + 1] = value]

\* pyb.readUserDebugParameter(id)
ReadUserDebugParameter(id) == sliders[id + 1].val

(* ------------------------------ startup -------------------------------- *)

\* line 68: gui_id = pyb.connect(pyb.GUI)
ConnectGui ==
    /\ pc = "connect_gui"
    /\ gui_id' = Len(conn)
    /\ conn' = Connect("GUI")
    /\ pc' = "connect_col"
    /\ UNCHANGED <<scene, jpos, stepped, sliders, geom, moves, err, col_id, user_params,
                   bodies, collision_bodies, col_detector, robot_id, iterVars, loaded>>

\* line 71: col_id = pyb.connect(pyb.DIRECT)
ConnectCol ==
    /\ pc = "connect_col"
    /\ col_id' = Len(conn)
    /\ conn' = Connect("DIRECT")
    /\ pc' = "create_params"
    /\ UNCHANGED <<scene, jpos, stepped, sliders, geom, moves, err, gui_id, user_params,
                   bodies, collision_bodies, col_detector, robot_id, iterVars, loaded>>

\* One slider as addUserDebugParameter(name, lo, hi, start) creates it.
NewParam(name, client) ==
    IF name = "collision_margin"
    THEN [name |-> name, val |-> MarginStart, client |-> client]
    ELSE [name |-> name, val |-> JointStart, client |-> client]

\* create_user_debug_params(gui_id), line 74: eight sliders in the GUI session,
\* their ids stored under their names.
CreateUserDebugParams ==
    /\ pc = "create_params"
    /\ sliders' = sliders \o [i \in 1 .. Len(ParamOrder) |-> NewParam(ParamOrder[i], gui_id)]
    /\ user_params' = [n \in Range(ParamOrder) |->
                          Len(sliders) + (CHOOSE i \in 1 .. Len(ParamOrder) : ParamOrder[i] = n) - 1]
    /\ pc' = "load_gui"
    /\ UNCHANGED <<conn, scene, jpos, stepped, geom, moves, err, gui_id, col_id,
                   bodies, collision_bodies, col_detector, robot_id, iterVars, loaded>>

\* lines 77-78: the session each load_environment call is given.
\* Variant: both calls are given the GUI session.
LoadClientSame(p) == gui_id

LoadClient(p) == IF p = "load_gui" THEN gui_id ELSE col_id

\* load_environment, lines 16-37: the next loadURDF call.
LoadNext ==
    /\ pc \in {"load_gui", "load_col"}
    /\ Len(loaded) < Len(LoadOrder)
    /\ LET client == LoadClient(pc)
           e == LoadOrder[Len(loaded) + 1]
       IN /\ loaded' = Append(loaded, Len(scene[client]))
          /\ scene' = LoadURDF(scene, client, e)
          /\ jpos' = LoadJoints(jpos, client, e)
    /\ UNCHANGED <<pc, conn, stepped, sliders, geom, moves, err, setupVars, iterVars>>

\* load_environment, lines 40-47: the dict of the returned ids.
BodiesDict(ids) ==
    [k \in {LoadOrder[i].key : i \in 1 .. Len(ids)} |->
        ids[CHOOSE i \in 1 .. Len(ids) : LoadOrder[i].key = k]]

\* load_environment returns; lines 77-78 bind the result.
LoadReturn ==
    /\ pc \in {"load_gui", "load_col"}
    /\ Len(loaded) = Len(LoadOrder)
    /\ IF pc = "load_gui"
       THEN /\ bodies' = BodiesDict(loaded)
            /\ pc' = "load_col"
            /\ UNCHANGED collision_bodies
       ELSE /\ collision_bodies' = BodiesDict(loaded)
            /\ pc' = "detector"
            /\ UNCHANGED bodies
    /\ loaded' = <<>>
    /\ UNCHANGED <<simVars, moves, err, gui_id, col_id, user_params, col_detector, robot_id, iterVars>>

\* lines 88-92: the arguments of the CollisionDetector constructor.
DetectorArgs == [col_id |-> col_id, bodies |-> collision_bodies, pairs |-> MonitoredPairs]

\* line 94: robot_id = bodies["robot"]
RobotId == bodies["robot"]

\* lines 82-94: build the detector, pick the robot to move.
CreateDetector ==
    /\ pc = "detector"
    /\ col_detector' = DetectorArgs
    /\ robot_id' = RobotId
    /\ pc' = "read"
    /\ UNCHANGED <<simVars, moves, err, gui_id, col_id, user_params, bodies, collision_bodies,
                   iterVars, loaded>>

startup == ConnectGui \/ ConnectCol \/ CreateUserDebugParams \/ LoadNext \/ LoadReturn
               \/ CreateDetector

(* ------------------------ the collision helper ------------------------- *)

\* The helper puts its session's robot into configuration cfg before it
\* measures: every joint of the robot in session det.col_id is set to cfg.
HelperPose(det, cfg) ==
    [jpos EXCEPT ![det.col_id][det.bodies["robot"] + 1] =
        [i \in DOMAIN @ |-> IF i \in DOMAIN cfg THEN cfg[i] ELSE @[i]]]

\* The shortest distances of the monitored pairs are a function of the scene's
\* pose, which the simulator computes: any values when the pose changes (or
\* was never measured), the same values while it does not.
Geometry(det, jp) ==
    IF jp = jpos /\ geom # <<>>
    THEN {geom}
    ELSE Tuples(DistVals, Len(det.pairs))

\* in_collision(q, margin): some monitored pair is closer than margin.
InCollision(dists, margin) == MinOf(dists) < margin

(* ------------------------------ the loop ------------------------------- *)

\* lines 98-106: the next readUserDebugParameter call of the list literal; the
\* seventh completes q.
ReadJoint ==
    /\ pc = "read"
    /\ LET name == JointReadOrder[Len(reads) + 1]
           v == ReadUserDebugParameter(user_params[name])
           ev == <<"readUserDebugParameter", name, v>>
       IN /\ calls' = IF reads = <<>> THEN <<ev>> ELSE Append(calls, ev)
          /\ IF Len(reads) + 1 = Len(JointReadOrder)
             THEN /\ q' = Append(reads, v)
                  /\ reads' = <<>>
                  /\ pc' = "dist"
             ELSE /\ reads' = Append(reads, v)
                  /\ UNCHANGED <<q, pc>>
    /\ UNCHANGED <<simVars, moves, err, setupVars, d, in_col, loaded, joint_idx, last_clear>>

\* line 108: d = col_detector.compute_distances(q)
ComputeDistances ==
    /\ pc = "dist"
    /\ jpos' = HelperPose(col_detector, q)
    /\ geom' \in Geometry(col_detector, jpos')
    /\ d' = geom'
    /\ calls' = Append(calls, <<"compute_distances", col_detector.col_id, q>>)
    /\ pc' = "in_col"
    /\ UNCHANGED <<conn, scene, stepped, sliders, moves, err, setupVars, reads, q, in_col,
                   loaded, joint_idx, last_clear>>

\* lines 109-111: the margin slider is read, then in_collision(q, margin).
QueryCollision ==
    /\ pc = "in_col"
    /\ LET margin == ReadUserDebugParameter(user_params["collision_margin"])
       IN /\ jpos' = HelperPose(col_detector, q)
          /\ geom' \in Geometry(col_detector, jpos')
          /\ in_col' = InCollision(geom', margin)
          /\ last_clear' = IF in_col' THEN last_clear ELSE q
          /\ calls' = calls \o << <<"readUserDebugParameter", "collision_margin", margin>>,
                                  <<"in_collision", col_detector.col_id, q>> >>
    /\ pc' = "branch"
    /\ UNCHANGED <<conn, scene, stepped, sliders, moves, err, setupVars, reads, q, d,
                   loaded, joint_idx>>

\* line 113: if not in_col
\* Variants: the test is dropped; the test is inverted.
ApplyAlways(flag) == TRUE

ApplyWhenColliding(flag) == flag

ApplyPose(flag) == ~flag

Branch ==
    /\ pc = "branch"
    /\ IF ApplyPose(in_col)
       THEN pc' = "update" /\ joint_idx' = 0
       ELSE pc' = "warn" /\ UNCHANGED joint_idx
    /\ UNCHANGED <<simVars, moves, err, setupVars, reads, q, d, in_col, loaded, calls, last_clear>>

\* line 114: the arguments of update_robot_state.
UpdateArgs == [robot |-> robot_id, state |-> q, client |-> gui_id]

\* line 63: state[joint_idx], the value joint joint_idx is reset to.
\* Variant: every joint gets state[0].
JointValueFirst(state, idx) == state[1]

JointValue(state, idx) == state[idx + 1]

\* update_robot_state, lines 62-63: the next resetJointState call.
UpdateJoint ==
    /\ pc = "update"
    /\ LET a == UpdateArgs
       IN /\ joint_idx < GetNumJoints(a.robot, a.client)
          /\ IF joint_idx + 1 \in DOMAIN a.state /\ ValidJoint(a.robot, joint_idx, a.client)
             THEN /\ jpos' = ResetJointState(jpos, a.robot, joint_idx,
                                             JointValue(a.state, joint_idx), a.client)
                  /\ calls' = Append(calls, <<"resetJointState", a.client, a.robot, joint_idx>>)
                  /\ joint_idx' = joint_idx + 1
                  /\ UNCHANGED <<pc, err, conn, scene, stepped, sliders, geom, moves,
                                 setupVars, reads, q, d, in_col, loaded, last_clear>>
             ELSE /\ err' = "IndexError"
                  /\ Propagate

\* update_robot_state: range(getNumJoints(...)) is exhausted, the call returns.
\* Variant: the else is missing, the warning follows the update.
UpdateReturnThenWarn ==
    /\ pc = "update"
    /\ LET a == UpdateArgs
       IN joint_idx >= GetNumJoints(a.robot, a.client)
    /\ pc' = "warn"
    /\ UNCHANGED <<simVars, moves, err, setupVars, iterVars, loaded>>

UpdateReturn ==
    /\ pc = "update"
    /\ LET a == UpdateArgs
       IN joint_idx >= GetNumJoints(a.robot, a.client)
    /\ pc' = "print"
    /\ UNCHANGED <<simVars, moves, err, setupVars, iterVars, loaded>>

\* lines 116-122: addUserDebugText("Avoiding collision", ...), no client given:
\* the simulator takes client 0.
\* Variant: the colliding branch ends with continue, skipping the step.
WarnAndContinue ==
    /\ pc = "warn"
    /\ calls' = Append(calls, <<"addUserDebugText", 0, "Avoiding collision">>)
    /\ pc' = "read"
    /\ UNCHANGED <<simVars, moves, err, setupVars, reads, q, d, in_col, loaded, joint_idx, last_clear>>

Warn ==
    /\ pc = "warn"
    /\ calls' = Append(calls, <<"addUserDebugText", 0, "Avoiding collision">>)
    /\ pc' = "print"
    /\ UNCHANGED <<simVars, moves, err, setupVars, reads, q, d, in_col, loaded, joint_idx, last_clear>>

\* line 124: print(d)
PrintDistances ==
    /\ pc = "print"
    /\ calls' = Append(calls, <<"print", d>>)
    /\ pc' = "step"
    /\ UNCHANGED <<simVars, moves, err, setupVars, reads, q, d, in_col, loaded, joint_idx, last_clear>>

\* line 126: which session is stepped, and where main goes next.
\* Variants: the headless session is stepped; the loop ends after one pass.
StepClientHeadless == col_id

StepClient == gui_id

AfterStepExit == "exit"

AfterStep == "read"

\* line 126: pyb.stepSimulation(physicsClientId=gui_id); no gravity is set and no
\* joint is driven, so the step moves nothing.  Then the while True loop repeats.
StepSimulation ==
    /\ pc = "step"
    /\ stepped' = [stepped EXCEPT ![StepClient] = TRUE]
    /\ calls' = Append(calls, <<"stepSimulation", StepClient>>)
    /\ pc' = AfterStep
    /\ UNCHANGED <<conn, scene, jpos, sliders, geom, moves, err, setupVars, reads, q, d,
                   in_col, loaded, joint_idx, last_clear>>

iteration == ReadJoint \/ ComputeDistances \/ QueryCollision \/ Branch \/ UpdateJoint
                 \/ UpdateReturn \/ Warn \/ PrintDistances \/ StepSimulation

(* ---------------------------- environment ------------------------------ *)

\* Positions of main at which a call into the simulator or the helper is
\* about to be made.
CallPcs == {"connect_gui", "connect_col", "create_params", "load_gui", "load_col",
            "detector", "read", "dist", "in_col", "update", "warn", "step"}

\* The call about to be made fails: the simulator raises.
CallFails ==
    /\ pc \in CallPcs
    /\ ~(pc \in {"load_gui", "load_col"} /\ Len(loaded) = Len(LoadOrder))
    /\ err' = "pybullet.error"
    /\ Propagate

\* Where a slider can be dragged to.
SliderPositions(name) ==
    IF name = "collision_margin"
    THEN {v \in MarginVals : MarginLo <= v /\ v <= MarginHi}
    ELSE JointVals

\* The user drags a slider of the GUI while the script runs.
MoveSlider ==
    /\ pc \notin {"crashed", "exit"}
    /\ moves < MaxMoves
    /\ \E k \in DOMAIN sliders :
         \E v \in SliderPositions(sliders[k].name) \ {sliders[k].val} :
            sliders' = [sliders EXCEPT ![k].val = v]
    /\ moves' = moves + 1
    /\ UNCHANGED <<pc, conn, scene, jpos, stepped, geom, err, setupVars, iterVars, loaded>>

Next == startup \/ iteration \/ CallFails \/ MoveSlider

Spec == Init /\ [][Next]_vars

\* The script's own steps are taken as long as one is possible: every call
\* into the simulator is synchronous and returns.
LiveSpec == Spec /\ WF_vars(startup \/ iteration)

(* ------------------------- reading the state --------------------------- *)

LoopPcs == {"read", "dist", "in_col", "branch", "update", "warn", "print", "step"}

InLoop == pc \in LoopPcs

\* main is at the top of the while loop.
LoopHead == pc = "read" /\ reads = <<>>

\* The branch of the current iteration has been carried out.
BranchDone == pc \in {"print", "step"} \/ (LoopHead /\ calls # <<>>)

\* The collision query of the current iteration has returned.
QueryDone == pc \in {"branch", "update", "warn"} \/ BranchDone

Kinds(c) == [i \in DOMAIN c |-> c[i][1]]

IsPrefix(s, t) == Len(s) <= Len(t) /\ \A i \in DOMAIN s : s[i] = t[i]

ResetsIn(c) == SelectSeq(c, LAMBDA e : e[1] = "resetJointState")

WarningsIn(c) == SelectSeq(c, LAMBDA e : e[1] = "addUserDebugText")

StepsIn(c) == SelectSeq(c, LAMBDA e : e[1] = "stepSimulation")

\* The margin the current iteration read from its slider.
MarginRead ==
    SelectSeq(calls, LAMBDA e : e[1] = "readUserDebugParameter"
                                  /\ e[2] = "collision_margin")[1][3]

\* The joint positions of the robot main moves, in the GUI session.
GuiPose == jpos[gui_id][robot_id + 1]

ZeroPose == [i \in 1 .. 7 |-> 0]

SevenReads == [i \in 1 .. 7 |-> "readUserDebugParameter"]

QueryCalls == SevenReads \o <<"compute_distances", "readUserDebugParameter", "in_collision">>

ClearCalls == QueryCalls \o [i \in 1 .. 7 |-> "resetJointState"] \o <<"print", "stepSimulation">>

WarnCalls == QueryCalls \o <<"addUserDebugText", "print", "stepSimulation">>

(* ------------------------------- claims -------------------------------- *)

\* C1: in every iteration, with q and the margin read in that iteration: when
\* the minimum of the distances the helper computed is below the margin, no
\* joint of the GUI robot is reset; otherwise update_robot_state has put the
\* GUI robot into q.
Thm_C1 ==
    /\ QueryDone /\ MinOf(d) < MarginRead => ResetsIn(calls) = <<>>
    /\ BranchDone /\ MinOf(d) >= MarginRead =>
          /\ GuiPose = q
          /\ Len(ResetsIn(calls)) = 7
          /\ \A i \in 1 .. 7 : ResetsIn(calls)[i] = <<"resetJointState", gui_id, bodies["robot"], i - 1>>

\* A pose whose minimum distance equals the margin has been applied.
Witness_C1 ==
    /\ pc = "step"
    /\ MinOf(d) = MarginRead
    /\ q # ZeroPose
    /\ GuiPose = q

\* C2: the calls of an iteration come in one fixed order: the seven joint
\* sliders, the distance query and the collision query on the headless
\* session, then the seven joint resets or the warning, then one
\* stepSimulation on the GUI session; a finished iteration is one of the two
\* full sequences.
Thm_C2 ==
    /\ IsPrefix(Kinds(calls), ClearCalls) \/ IsPrefix(Kinds(calls), WarnCalls)
    /\ LoopHead /\ calls # <<>> => Kinds(calls) \in {ClearCalls, WarnCalls}
    /\ LoopHead /\ stepped[gui_id] => calls # <<>>
    /\ \A i \in DOMAIN calls :
          /\ i <= 7 => calls[i][2] # "collision_margin"
          /\ calls[i][1] \in {"compute_distances", "in_collision"} =>
                calls[i][2] = col_id /\ conn[col_id + 1] = "DIRECT"
          /\ calls[i][1] = "stepSimulation" => calls[i][2] = gui_id /\ conn[gui_id + 1] = "GUI"
    /\ Len(StepsIn(calls)) <= 1

\* An iteration on the colliding branch has finished, with its step taken.
Witness_C2 == LoopHead /\ Kinds(calls) = WarnCalls

\* C3: a finished branch has either reset the seven joints of the GUI robot or
\* shown the warning text once, never both and never neither, and the warning
\* was shown exactly when in_collision returned True.
Thm_C3 ==
    /\ ~(WarningsIn(calls) # <<>> /\ ResetsIn(calls) # <<>>)
    /\ BranchDone =>
          /\ (WarningsIn(calls) # <<>>) # (Len(ResetsIn(calls)) = 7)
          /\ (WarningsIn(calls) # <<>>) <=> in_col
          /\ WarningsIn(calls) \in {<<>>, << <<"addUserDebugText", gui_id, "Avoiding collision">> >>}

\* The warning was shown and the pose q was not applied.
Witness_C3 ==
    /\ pc = "step"
    /\ in_col
    /\ WarningsIn(calls) # <<>>
    /\ GuiPose # q

\* C4: once startup is over both sessions hold the same five bodies in the
\* same order at the same positions, both mappings have the keys robot,
\* ground, cube1, cube2, cube3, and every monitored body is the same model at
\* the same place in both sessions.
Thm_C4 ==
    robot_id # Unbound =>
        /\ scene[gui_id] = scene[col_id]
        /\ scene[col_id] =
              << [file |-> "plane.urdf", pos |-> <<0, 0, 0>>],
                 [file |-> "kuka_iiwa/model.urdf", pos |-> <<0, 0, 0>>],
                 [file |-> "cube.urdf", pos |-> <<100, 100, 50>>],
                 [file |-> "cube.urdf", pos |-> <<-100, -100, 50>>],
                 [file |-> "cube.urdf", pos |-> <<100, -100, 50>>] >>
        /\ DOMAIN bodies = {"robot", "ground", "cube1", "cube2", "cube3"}
        /\ DOMAIN collision_bodies = DOMAIN bodies
        /\ \A i \in DOMAIN col_detector.pairs : \A j \in 1 .. 2 :
              LET k == col_detector.pairs[i][j].body
              IN /\ k \in DOMAIN bodies
                 /\ scene[gui_id][bodies[k] + 1] = scene[col_id][col_detector.bodies[k] + 1]

\* The loop runs with both scenes loaded.
Witness_C4 ==
    /\ pc = "dist"
    /\ Len(scene[gui_id]) = 5
    /\ Len(scene[col_id]) = 5
    /\ gui_id # col_id

\* C5: the headless session is never stepped and update_robot_state never
\* resets a joint in it; the detector holds the headless session's id and
\* mapping, and the robot main moves comes from the GUI session's mapping.
Thm_C5 ==
    /\ col_id # Unbound =>
          /\ ~stepped[col_id]
          /\ conn[col_id + 1] = "DIRECT"
          /\ \A i \in DOMAIN calls :
                calls[i][1] \in {"resetJointState", "stepSimulation", "addUserDebugText"} =>
                   calls[i][2] = gui_id /\ calls[i][2] # col_id
    /\ robot_id # Unbound =>
          /\ col_detector.col_id = col_id
          /\ col_detector.bodies = collision_bodies
          /\ robot_id = bodies["robot"]
          /\ scene[gui_id][robot_id + 1].file = "kuka_iiwa/model.urdf"

\* A pose was applied and a step taken, all in the GUI session.
Witness_C5 ==
    /\ LoopHead
    /\ stepped[gui_id]
    /\ ~stepped[col_id]
    /\ GuiPose # ZeroPose
    /\ jpos[col_id][collision_bodies["robot"] + 1] = GuiPose

\* C6: main never leaves the while loop: a step of the script taken inside the
\* loop without a call failing ends inside the loop, stepSimulation is
\* followed by the first slider read of the next iteration, there is always a
\* next step to take, and unless a call fails main is at the top of the loop
\* again and again.
Thm_C6 ==
    /\ [](pc # "exit")
    /\ [][InLoop /\ err' = "none" => InLoop']_vars
    /\ [][pc = "step" /\ pc' # pc /\ err' = "none" => LoopHead']_vars
    /\ [](InLoop => ENABLED iteration)
    /\ []<>(LoopHead \/ pc = "crashed")

\* A second iteration has begun after a full first one.
Witness_C6 ==
    /\ pc = "read"
    /\ Len(reads) = 3
    /\ stepped[gui_id]
    /\ err = "none"

\* C7: a call that raises ends the script at once: main is left, the failing
\* step changes nothing else, and nothing happens afterwards.
Thm_C7 ==
    /\ [](err # "none" => pc = "crashed")
    /\ [][err' # err =>
            /\ pc' = "crashed"
            /\ UNCHANGED <<simVars, moves, setupVars, iterVars, loaded>>]_vars
    /\ [][pc # "crashed"]_vars

\* The collision query of an iteration raised, after the distance query.
Witness_C7 ==
    /\ pc = "crashed"
    /\ err = "pybullet.error"
    /\ Kinds(calls) = SevenReads \o <<"compute_distances">>
    /\ stepped[gui_id]

\* C8: no step of the loop changes either mapping or the detector's pairs,
\* which are the four pairs of arm link 7 with ground, cube1, cube2, cube3;
\* q is built anew in each iteration from the sliders joint1 .. joint7, in
\* that order.
Thm_C8 ==
    /\ [][InLoop => UNCHANGED <<bodies, collision_bodies, col_detector>>]_vars
    /\ [](robot_id # Unbound =>
            /\ Len(col_detector.pairs) = 4
            /\ \A i \in 1 .. 4 :
                  /\ col_detector.pairs[i][1] = [body |-> "robot", link |-> "lbr_iiwa_link_7"]
                  /\ col_detector.pairs[i][2] =
                        [body |-> <<"ground", "cube1", "cube2", "cube3">>[i], link |-> "None"])
    /\ [](QueryDone \/ pc \in {"dist", "in_col"} =>
            /\ Len(q) = 7
            /\ \A i \in 1 .. 7 :
                  calls[i] = << "readUserDebugParameter",
                                <<"lbr_iiwa_joint1", "lbr_iiwa_joint2", "lbr_iiwa_joint3",
                                  "lbr_iiwa_joint4", "lbr_iiwa_joint5", "lbr_iiwa_joint6",
                                  "lbr_iiwa_joint7">>[i],
                                q[i] >>)
    /\ [][pc = "read" /\ pc' = "dist" =>
            q'[7] = sliders[user_params["lbr_iiwa_joint7"] + 1].val]_vars

\* A second iteration has read a q that differs from the first one's.
Witness_C8 ==
    /\ pc = "dist"
    /\ stepped[gui_id]
    /\ q[1] # q[2]
    /\ q # jpos[col_id][collision_bodies["robot"] + 1]

\* C9: each step of update_robot_state sets joint joint_idx of the GUI robot to
\* state[joint_idx] and nothing else, for joint_idx = 0, 1, .. 6 in turn; it
\* never indexes past the end of q; when it has returned, joint i of the GUI
\* robot holds the value read from slider joint(i+1).
Thm_C9 ==
    /\ [][pc = "update" /\ calls' # calls =>
            /\ joint_idx' = joint_idx + 1
            /\ calls' = Append(calls, <<"resetJointState", gui_id, robot_id, joint_idx>>)
            /\ jpos' = [jpos EXCEPT ![gui_id][robot_id + 1][joint_idx + 1] = q[joint_idx + 1]]
            /\ UNCHANGED <<scene, conn, stepped, sliders, geom, q>>]_vars
    /\ [](err # "IndexError")
    /\ [](pc = "update" =>
            /\ GetNumJoints(robot_id, gui_id) = 7
            /\ Len(q) = 7
            /\ joint_idx <= 7
            /\ Len(ResetsIn(calls)) = joint_idx)
    /\ [](pc = "print" /\ ~in_col =>
            /\ Len(ResetsIn(calls)) = 7
            /\ \A i \in 1 .. 7 :
                  /\ calls[i][2] = <<"lbr_iiwa_joint1", "lbr_iiwa_joint2", "lbr_iiwa_joint3",
                                     "lbr_iiwa_joint4", "lbr_iiwa_joint5", "lbr_iiwa_joint6",
                                     "lbr_iiwa_joint7">>[i]
                  /\ GuiPose[i] = calls[i][3])

\* update_robot_state has applied a pose whose first two joints differ.
Witness_C9 ==
    /\ pc = "print"
    /\ ~in_col
    /\ GuiPose = q
    /\ q[1] # q[2]

\* C10: between applications the GUI robot holds its loading pose or the q of
\* the latest iteration whose collision query returned False; only
\* update_robot_state in such an iteration changes it, and an iteration whose
\* query returned True leaves it as it was.
Thm_C10 ==
    /\ [](/\ robot_id # Unbound
          /\ pc \in {"read", "dist", "in_col", "warn", "print", "step"} \/ (pc = "branch" /\ in_col)
          => GuiPose = IF last_clear = <<>> THEN ZeroPose ELSE last_clear)
    /\ [][robot_id # Unbound /\ jpos'[gui_id] # jpos[gui_id] =>
            pc = "update" /\ ~in_col /\ q = last_clear]_vars
    /\ [][in_col /\ pc \in {"branch", "warn", "print", "step"} =>
            jpos'[gui_id] = jpos[gui_id]]_vars

\* A colliding q was refused while the robot kept an earlier, applied pose.
Witness_C10 ==
    /\ pc = "step"
    /\ in_col
    /\ last_clear # <<>>
    /\ last_clear # ZeroPose
    /\ q # last_clear
    /\ GuiPose = last_clear

====
